---- MODULE Spec2Model ----
(***************************************************************************)
(* A model of aioSMART's Smartctl wrapper (src/aioSMART/smartctl.py): the  *)
(* configuration of one Smartctl object, the Python list objects its       *)
(* calls read and write, the coroutines of its callers, and the operating  *)
(* system's processes they spawn.  The logger calls (logger.trace,         *)
(* logger.warn, logger.debug) write no state of the wrapper and are left   *)
(* out.                                                                    *)
(***************************************************************************)
EXTENDS Integers, Sequences, FiniteSets, TLC

\* ------------------------------------------------------------- bounds
NTasks == 2       \* coroutines that may call the wrapper concurrently
MaxOptLen == 2    \* longest persistent option list that add_options builds

Tasks == 1..NTasks
Pids == 1..NTasks

\* ------------------------------------------------------------- values
None == "<None>"

\* Arguments the callers draw from.
GenericParams ==
  { <<>>, <<"--all", "/dev/sda">>, <<"-j", "--all">>, <<"--json">>, <<"--all", "-j">> }
Disks == { "/dev/sda" }
Interfaces == { None, "", "ata" }
DiskTypes == { "ata" }
TestTypes == { "short" }
InitOptions == { <<>>, <<"-s">> }
NewOptions == { <<"-s">>, <<"-j">>, <<"-q", "-s">> }
Paths == { "", "/usr/sbin/smartctl" }

\* Values assigned to the sudo property: a bool, or a list of sudo arguments.
SudoValues ==
  { [isList |-> FALSE, truthy |-> FALSE, v |-> <<>>],
    [isList |-> FALSE, truthy |-> TRUE,  v |-> <<>>],
    [isList |-> TRUE,  truthy |-> FALSE, v |-> <<>>],
    [isList |-> TRUE,  truthy |-> TRUE,  v |-> <<"-u", "svc">>] }

\* What a finished smartctl process leaves behind: the bytes of its standard
\* output, whether its standard error is valid UTF-8, and its exit code.
JsonTexts == { "{\"ok\":true}", "{}" }
BadUtf8 == "<bytes that are not UTF-8>"
Stdouts == JsonTexts \cup { "Permission denied", BadUtf8 }
ExitCodes == { 0, 2 }
ProcOutputs == [stdout : Stdouts, errok : BOOLEAN, rc : ExitCodes]
NoOutput == [stdout |-> "", errok |-> TRUE, rc |-> -1]

\* Python's exception classes that the wrapper can raise, all of them
\* subclasses of Exception.
OSErrors == { "FileNotFoundError", "PermissionError" }
ValueErrors == { "UnicodeDecodeError", "JSONDecodeError" }
ExceptionSubclasses == OSErrors \cup ValueErrors \cup { "TypeError" }

VARIABLES
  posix,          \* os.name == 'posix'
  smartctl_path,  \* self.smartctl_path
  _sudo,          \* self._sudo: None, or the list of sudo arguments
  heap,           \* the list objects: self.options, each call's params and popen_list
  pc,             \* where each caller's coroutine is
  call,           \* the operation each caller issued, with its arguments
  argv,           \* the argument vector each call handed to create_subprocess_exec
  proc,           \* each call's local process handle (a pid, or 0)
  procs,          \* the operating system's process table
  outcome,        \* what each call returned or raised
  cnt,            \* per call: spawns attempted, waits performed, outcomes reported
  mode,           \* the value last assigned to the sudo property
  optlog,         \* the initial options followed by every list added, in call order
  exited          \* per caller: what the process spawned for its call exited with

vars == << posix, smartctl_path, _sudo, heap, pc, call, argv, proc, procs,
           outcome, cnt, mode, optlog, exited >>

config == << posix, smartctl_path, _sudo, mode, optlog >>

\* ------------------------------------------------------------- list objects
OPTIONS == << "options", 0 >>
params_ref(t) == << "params", t >>
Refs == { OPTIONS } \cup { << k, t >> : k \in { "params", "popen" }, t \in Tasks }

extend(h, ref, items) == [h EXCEPT ![ref] = h[ref] \o items]
append(h, ref, item) == [h EXCEPT ![ref] = Append(h[ref], item)]

Truthy(x) == x /= None /\ x /= ""

\* ------------------------------------------------------------- results
Pending == [tag |-> "pending", doc |-> "", status |-> -1, exc |-> ""]
Raise(e) == [tag |-> "raise", doc |-> "", status |-> -1, exc |-> e]
ReturnPair(d, s) == [tag |-> "pair", doc |-> d, status |-> s, exc |-> ""]
ReturnDoc(d) == [tag |-> "doc", doc |-> d, status |-> -1, exc |-> ""]
ReturnStatus(s) == [tag |-> "status", doc |-> "", status |-> s, exc |-> ""]

EmptyDoc == "dict()"

\* json.loads on the texts the processes print: a document, or no document.
json_valid(text) == text \in JsonTexts
json_loads(text) ==
  IF text = "{\"ok\":true}" THEN "dict(ok=True)" ELSE EmptyDoc

\* ------------------------------------------------------------- Smartctl.sudo
NoSudo == [none |-> TRUE, args |-> <<>>]
SudoArgs(a) == [none |-> FALSE, args |-> a]

sudo_setter_truthiness(value) ==
  IF value.truthy THEN SudoArgs(<< "-E" >>) ELSE NoSudo

sudo_setter(value) ==
  IF ~value.isList
    THEN (IF value.truthy THEN SudoArgs(<< "-E" >>) ELSE NoSudo)
    ELSE SudoArgs(value.v)

\* ------------------------------------------------------------- Smartctl.add_options
add_options_prepend(options, new_options) == new_options \o options

add_options_value(options, new_options) == options \o new_options

\* ------------------------------------------------------------- Smartctl._exec
any_in(search_in, a, b) ==
  \E i \in 1..Len(search_in) : search_in[i] = a \/ search_in[i] = b

_exec_cmd_always(h, cmd) == append(h, cmd, "-j")

\* if not any_in(cmd, "-j", "--json"): cmd.append("-j")
_exec_cmd(h, cmd) ==
  IF ~any_in(h[cmd], "-j", "--json") THEN append(h, cmd, "-j") ELSE h

_exec_result_lenient(out) ==
  IF out.stdout = BadUtf8 \/ ~out.errok THEN Raise("UnicodeDecodeError")
  ELSE IF ~json_valid(out.stdout) THEN ReturnPair(EmptyDoc, out.rc)
  ELSE ReturnPair(json_loads(out.stdout), out.rc)

\* [i.decode('utf8') for i in await proc.communicate()], then
\* return json.loads(_stdout), proc.returncode
_exec_result(out) ==
  IF out.stdout = BadUtf8 \/ ~out.errok THEN Raise("UnicodeDecodeError")
  ELSE IF ~json_valid(out.stdout) THEN Raise("JSONDecodeError")
  ELSE ReturnPair(json_loads(out.stdout), out.rc)

\* ------------------------------------------------------------- Smartctl.generic_call
popen_list_is_params(t) == params_ref(t)

\* popen_list = []: a list of the call's own
popen_list(t) == << "popen", t >>

generic_call_cmd(h, t, pass_options) ==
  IF ~Truthy(smartctl_path)
    THEN [heap |-> h, exc |-> "FileNotFoundError", argv |-> <<>>]
    ELSE
      LET L == popen_list(t)
          h0 == [h EXCEPT ![L] = <<>>]
          h1 == IF posix /\ ~_sudo.none
                  THEN extend(h0, L, << "sudo" >> \o _sudo.args)
                  ELSE h0
          h2 == append(h1, L, smartctl_path)
          h3 == IF pass_options THEN extend(h2, L, h2[OPTIONS]) ELSE h2
          h4 == extend(h3, L, h3[params_ref(t)])
          h5 == _exec_cmd(h4, L)
      IN  [heap |-> h5, exc |-> "", argv |-> h5[L]]

\* ------------------------------------------------------------- Smartctl.try_generic_call
caught_oserror(e) == e \in OSErrors

\* except Exception
caught(e) == e \in ExceptionSubclasses

try_generic_call_result(r) ==
  IF r.tag = "raise" /\ caught(r.exc) THEN ReturnPair(EmptyDoc, 1) ELSE r

\* ------------------------------------------------------------- the named operations
DocOps == { "scan", "health", "info", "all" }

\* What each operation makes of generic_call's result: [0], [1], or all of it.
op_result(api, r) ==
  IF api = "try_generic_call" THEN try_generic_call_result(r)
  ELSE IF r.tag = "raise" THEN r
  ELSE IF api \in DocOps THEN ReturnDoc(r.doc)
  ELSE IF api = "test_stop" THEN ReturnStatus(r.status)
  ELSE r

health_params(disk, interface) ==
  IF Truthy(interface) THEN << "-d", interface, "--health", disk >>
                       ELSE << "--health", disk >>

info_params(disk, interface) ==
  IF Truthy(interface) THEN << "-d", interface, "--info", disk >>
                       ELSE << "--info", disk >>

all_params(disk, interface) ==
  IF Truthy(interface) THEN << "-d", interface, "--all", disk >>
                       ELSE << "--all", disk >>

test_stop_params(disk_type, disk) == << "-d", disk_type, "-X", disk >>

test_start_params(disk_type, test_type, disk) ==
  << "-d", disk_type, "-t", test_type, disk >>

Call(api, params, pass_options, disk, interface, disk_type, test_type) ==
  [api |-> api, params |-> params, pass |-> pass_options, disk |-> disk,
   interface |-> interface, disk_type |-> disk_type, test_type |-> test_type]

NoCall == Call("", <<>>, FALSE, "", None, "", "")
NoCount == [spawn |-> 0, wait |-> 0, report |-> 0]
FreeProc == [state |-> "free", argv |-> <<>>, owner |-> 0, out |-> NoOutput]

\* ------------------------------------------------------------- the state after construction
\* Smartctl(smartctl_path, options, sudo): self.options is the caller's list,
\* and self.sudo = sudo goes through the setter.
InitWith(platforms, paths, sudos) ==
  /\ posix \in platforms
  /\ smartctl_path \in paths
  /\ \E o \in InitOptions, v \in sudos :
       /\ heap = [r \in Refs |-> IF r = OPTIONS THEN o ELSE <<>>]
       /\ optlog = o
       /\ mode = v
       /\ _sudo = sudo_setter(v)
  /\ pc = [t \in Tasks |-> "idle"]
  /\ call = [t \in Tasks |-> NoCall]
  /\ argv = [t \in Tasks |-> <<>>]
  /\ proc = [t \in Tasks |-> 0]
  /\ procs = [p \in Pids |-> FreeProc]
  /\ outcome = [t \in Tasks |-> Pending]
  /\ cnt = [t \in Tasks |-> NoCount]
  /\ exited = [t \in Tasks |-> NoOutput]

Init == InitWith(BOOLEAN, Paths, SudoValues)

\* ------------------------------------------------------------- steps of a call
\* The call ends: its result or its exception reaches the caller.
Finish(t, c, r, h, n) ==
  /\ outcome' = [outcome EXCEPT ![t] = op_result(c.api, r)]
  /\ pc' = [pc EXCEPT ![t] = "done"]
  /\ cnt' = [cnt EXCEPT ![t] = [n EXCEPT !.report = @ + 1]]
  /\ heap' = h

\* The caller's coroutine runs from the call to its first suspension: it builds
\* the command and hands it to asyncio.create_subprocess_exec, or raises.
Begin(t, c) ==
  /\ call' = [call EXCEPT ![t] = c]
  /\ exited' = [exited EXCEPT ![t] = NoOutput]
  /\ LET h == [heap EXCEPT ![params_ref(t)] = c.params]
         r == generic_call_cmd(h, t, c.pass)
     IN  IF r.exc /= ""
           THEN /\ Finish(t, c, Raise(r.exc), r.heap, NoCount)
                /\ UNCHANGED << argv >>
           ELSE /\ heap' = r.heap
                /\ argv' = [argv EXCEPT ![t] = r.argv]
                /\ pc' = [pc EXCEPT ![t] = "spawn"]
                /\ cnt' = [cnt EXCEPT ![t] = [NoCount EXCEPT !.spawn = 1]]
                /\ UNCHANGED << outcome >>
  /\ UNCHANGED << config, proc, procs >>

generic_call(t, params, pass_options) ==
  /\ pc[t] = "idle"
  /\ Begin(t, Call("generic_call", params, pass_options, "", None, "", ""))

try_generic_call(t, params, pass_options) ==
  /\ pc[t] = "idle"
  /\ Begin(t, Call("try_generic_call", params, pass_options, "", None, "", ""))

scan(t) ==
  /\ pc[t] = "idle"
  /\ Begin(t, Call("scan", << "--scan-open" >>, FALSE, "", None, "", ""))

health(t, disk, interface) ==
  /\ pc[t] = "idle"
  /\ Begin(t, Call("health", health_params(disk, interface), FALSE, disk, interface, "", ""))

\* await (self.generic_call(...))[0]: the subscript is applied to the coroutine
\* object that generic_call(...) returns, before anything is awaited; a coroutine
\* is not subscriptable, and generic_call's body never starts.
info(t, disk, interface) ==
  /\ pc[t] = "idle"
  /\ LET c == Call("info", info_params(disk, interface), TRUE, disk, interface, "", "")
     IN  /\ call' = [call EXCEPT ![t] = c]
         /\ Finish(t, c, Raise("TypeError"),
                   [heap EXCEPT ![params_ref(t)] = c.params], NoCount)
  /\ exited' = [exited EXCEPT ![t] = NoOutput]
  /\ UNCHANGED << config, argv, proc, procs >>

all(t, disk, interface) ==
  /\ pc[t] = "idle"
  /\ Begin(t, Call("all", all_params(disk, interface), TRUE, disk, interface, "", ""))

test_stop(t, disk_type, disk) ==
  /\ pc[t] = "idle"
  /\ Begin(t, Call("test_stop", test_stop_params(disk_type, disk), FALSE, disk, None,
                   disk_type, ""))

test_start(t, disk_type, test_type, disk) ==
  /\ pc[t] = "idle"
  /\ Begin(t, Call("test_start", test_start_params(disk_type, test_type, disk), FALSE,
                   disk, None, disk_type, test_type))

FreePid == CHOOSE p \in Pids : procs[p].state = "free" /\
                               \A q \in Pids : procs[q].state = "free" => p <= q

\* create_subprocess_exec returns a process; the coroutine goes on to
\* proc.communicate() and suspends there.
Launch(t) ==
  /\ pc[t] = "spawn"
  /\ \E p \in Pids : procs[p].state = "free"
  /\ procs' = [procs EXCEPT ![FreePid] =
                 [state |-> "running", argv |-> argv[t], owner |-> t, out |-> NoOutput]]
  /\ proc' = [proc EXCEPT ![t] = FreePid]
  /\ pc' = [pc EXCEPT ![t] = "communicate"]
  /\ cnt' = [cnt EXCEPT ![t].wait = @ + 1]
  /\ UNCHANGED << config, heap, call, argv, outcome, exited >>

\* create_subprocess_exec raises: the operating system started no process.
LaunchFail(t, e) ==
  /\ pc[t] = "spawn"
  /\ Finish(t, call[t], Raise(e), heap, cnt[t])
  /\ UNCHANGED << config, call, argv, proc, procs, exited >>

\* A smartctl process exits.
ProcExit(p, out) ==
  /\ procs[p].state = "running"
  /\ procs' = [procs EXCEPT ![p].state = "exited", ![p].out = out]
  /\ exited' = [exited EXCEPT ![procs[p].owner] = out]
  /\ UNCHANGED << config, heap, pc, call, argv, proc, outcome, cnt >>

awaited_any(t) ==
  IF \E p \in Pids : procs[p].state = "exited"
    THEN CHOOSE p \in Pids : procs[p].state = "exited"
    ELSE proc[t]

\* proc.communicate(): the call's own handle
awaited(t) == proc[t]

\* communicate() returns the output of the exited process; _exec decodes it.
Communicate(t) ==
  /\ pc[t] = "communicate"
  /\ procs[awaited(t)].state = "exited"
  /\ Finish(t, call[t], _exec_result(procs[awaited(t)].out), heap, cnt[t])
  /\ procs' = [procs EXCEPT ![awaited(t)] = FreeProc]
  /\ proc' = [proc EXCEPT ![t] = 0]
  /\ UNCHANGED << config, call, argv, exited >>

\* The caller takes the result and is ready for its next call; the lists of the
\* finished call are garbage.
Collect(t) ==
  /\ pc[t] = "done"
  /\ pc' = [pc EXCEPT ![t] = "idle"]
  /\ call' = [call EXCEPT ![t] = NoCall]
  /\ argv' = [argv EXCEPT ![t] = <<>>]
  /\ outcome' = [outcome EXCEPT ![t] = Pending]
  /\ cnt' = [cnt EXCEPT ![t] = NoCount]
  /\ exited' = [exited EXCEPT ![t] = NoOutput]
  /\ heap' = [heap EXCEPT ![params_ref(t)] = <<>>, ![<< "popen", t >>] = <<>>]
  /\ UNCHANGED << config, proc, procs >>

\* ------------------------------------------------------------- configuration
add_options(new_options) ==
  /\ Len(heap[OPTIONS]) + Len(new_options) <= MaxOptLen
  /\ heap' = [heap EXCEPT ![OPTIONS] = add_options_value(heap[OPTIONS], new_options)]
  /\ optlog' = optlog \o new_options
  /\ UNCHANGED << posix, smartctl_path, _sudo, mode, pc, call, argv, proc, procs,
                  outcome, cnt, exited >>

\* self.sudo = value
sudo(value) ==
  /\ _sudo' = sudo_setter(value)
  /\ mode' = value
  /\ UNCHANGED << posix, smartctl_path, heap, optlog, pc, call, argv, proc, procs,
                  outcome, cnt, exited >>

\* ------------------------------------------------------------- one caller
\* One caller awaits each call before its next statement, so it reconfigures
\* the wrapper only between calls.
Caller == 1
Quiescent == \A t \in Tasks : pc[t] = "idle"

Next ==
  \/ \E p \in GenericParams, b \in BOOLEAN : generic_call(Caller, p, b)
  \/ \E p \in GenericParams, b \in BOOLEAN : try_generic_call(Caller, p, b)
  \/ scan(Caller)
  \/ \E d \in Disks, i \in Interfaces : health(Caller, d, i)
  \/ \E d \in Disks, i \in Interfaces : info(Caller, d, i)
  \/ \E d \in Disks, i \in Interfaces : all(Caller, d, i)
  \/ \E k \in DiskTypes, d \in Disks : test_stop(Caller, k, d)
  \/ \E k \in DiskTypes, y \in TestTypes, d \in Disks : test_start(Caller, k, y, d)
  \/ Launch(Caller)
  \/ \E e \in OSErrors : LaunchFail(Caller, e)
  \/ \E p \in Pids, out \in ProcOutputs : ProcExit(p, out)
  \/ Communicate(Caller)
  \/ Collect(Caller)
  \/ Quiescent /\ \E n \in NewOptions : add_options(n)
  \/ Quiescent /\ \E v \in SudoValues : sudo(v)

Spec == Init /\ [][Next]_vars

\* ------------------------------------------------------------- concurrent callers
\* Several coroutines call one wrapper that was configured before they started.
ConcParams == { << "--all", "/dev/sda" >> }
ConcTryParams == { << "--json" >> }
ConcOutputs ==
  { [stdout |-> "{\"ok\":true}", errok |-> TRUE, rc |-> 0],
    [stdout |-> "Permission denied", errok |-> TRUE, rc |-> 2] }
ConcSudo == { v \in SudoValues : ~v.isList }

InitConc == InitWith({ TRUE }, Paths, ConcSudo)

NextConc ==
  \E t \in Tasks :
    \/ \E p \in ConcParams : generic_call(t, p, TRUE)
    \/ \E p \in ConcTryParams : try_generic_call(t, p, FALSE)
    \/ \E d \in Disks : health(t, d, "ata")
    \/ Launch(t)
    \/ LaunchFail(t, "PermissionError")
    \/ \E out \in ConcOutputs : ProcExit(t, out)
    \/ Communicate(t)
    \/ Collect(t)

SpecConc == InitConc /\ [][NextConc]_vars

\* ------------------------------------------------------------- what the claims speak of
\* The call of t handed a command to the process spawn.
Spawned(t) == cnt[t].spawn > 0
Done(t) == pc[t] = "done"
\* The process of t's call ran and exited.
Ran(t) == exited[t] /= NoOutput

HasJsonFlag(seq) == \E i \in 1..Len(seq) : seq[i] \in { "-j", "--json" }

\* The privilege mode the caller asked for, as the spec describes it.
Escalating == posix /\ (mode.isList \/ mode.truthy)
EscalationArgs == IF mode.isList THEN mode.v ELSE << "-E" >>
EscalationTokens == { "sudo", "-E", "-u", "svc" }
Prefix == IF Escalating THEN << "sudo" >> \o EscalationArgs ELSE <<>>

PassedOptions(t) == IF call[t].pass THEN optlog ELSE <<>>
BaseCommand(t) == Prefix \o << smartctl_path >> \o PassedOptions(t) \o call[t].params
FullCommand(t) ==
  IF HasJsonFlag(BaseCommand(t)) THEN BaseCommand(t) ELSE BaseCommand(t) \o << "-j" >>

Undecodable(out) == out.stdout \notin JsonTexts \/ ~out.errok
Document(out) == IF out.stdout = "{}" THEN "dict()" ELSE "dict(ok=True)"

\* ------------------------------------------------------------- C1
\* C1 as stated: whether '-j' is appended is decided by the params list alone:
\* params with '-j' or '--json' get nothing appended, params without get
\* exactly one '-j', as the last element of the spawned command.
C1_FlagDecidedByParams ==
  \A t \in Tasks :
    Spawned(t) =>
      argv[t] = IF HasJsonFlag(call[t].params)
                  THEN BaseCommand(t)
                  ELSE BaseCommand(t) \o << "-j" >>

\* C1 as amended: whether '-j' is appended is decided by the whole built command
\* (escalation prefix, path, persistent options when passed, params): a command
\* holding '-j' or '--json' gets nothing appended, any other gets exactly one
\* '-j', as its last element.
C1_FlagDecidedByCommand ==
  \A t \in Tasks :
    Spawned(t) =>
      argv[t] = IF HasJsonFlag(BaseCommand(t))
                  THEN BaseCommand(t)
                  ELSE BaseCommand(t) \o << "-j" >>

C1_Witness ==
  \E t \in Tasks :
    /\ Spawned(t)
    /\ call[t].pass
    /\ HasJsonFlag(optlog)
    /\ call[t].params /= <<>>
    /\ ~HasJsonFlag(call[t].params)
    /\ argv[t] = BaseCommand(t)

\* ------------------------------------------------------------- C2
\* C2: with the executable path unset, every public operation ends in
\* FileNotFoundError and spawns no process.
C2_UnsetPathToolNotFound ==
  \A t \in Tasks :
    (Done(t) /\ ~Truthy(smartctl_path) /\ call[t].api /= "try_generic_call") =>
      /\ outcome[t] = Raise("FileNotFoundError")
      /\ cnt[t].spawn = 0

\* ------------------------------------------------------------- C3
InvokeFails(t) ==
  \/ ~Truthy(smartctl_path)
  \/ ~Ran(t)
  \/ Undecodable(exited[t])

C4_EscalationPrefix ==
  \A t \in Tasks :
    Spawned(t) =>
      /\ SubSeq(argv[t], 1, Len(Prefix) + 1) = Prefix \o << smartctl_path >>
      /\ Escalating => /\ argv[t][1] = "sudo"
                       /\ SubSeq(argv[t], 2, Len(Prefix)) = EscalationArgs
      /\ ~Escalating => argv[t][1] = smartctl_path
      /\ \A i \in (Len(Prefix) + 1)..Len(argv[t]) : argv[t][i] \notin EscalationTokens

C4_Witness ==
  \E t \in Tasks :
    /\ Spawned(t)
    /\ posix
    /\ mode.isList
    /\ mode.v = << "-u", "svc" >>
    /\ call[t].pass
    /\ SubSeq(argv[t], 1, 4) = << "sudo", "-u", "svc", smartctl_path >>

\* ------------------------------------------------------------- C5
\* C5: the persistent option list is the initial options followed by every
\* added list in call order; an invocation that passes persistent options puts
\* exactly that list right after the executable path and before params, and one
\* that does not puts params right after the path.
C5_PersistentOptions ==
  /\ heap[OPTIONS] = optlog
  /\ \A t \in Tasks :
       Spawned(t) =>
         LET k == Len(Prefix) + 1
             n == Len(PassedOptions(t))
             m == Len(call[t].params)
         IN  /\ argv[t][k] = smartctl_path
             /\ call[t].pass => SubSeq(argv[t], k + 1, k + n) = optlog
             /\ SubSeq(argv[t], k + n + 1, k + n + m) = call[t].params
             /\ Len(argv[t]) \in { k + n + m, k + n + m + 1 }

C5_Witness ==
  \E t \in Tasks :
    /\ Spawned(t)
    /\ call[t].pass
    /\ optlog = << "-j", "-s" >>
    /\ call[t].params = << "--all", "/dev/sda" >>
    /\ argv[t] = Prefix \o << smartctl_path, "-j", "-s", "--all", "/dev/sda" >>

\* ------------------------------------------------------------- C6
DecodeFailed(t) == Done(t) /\ Ran(t) /\ ~json_valid(exited[t].stdout)

\* C6 as stated: when the process exits with status s and prints no valid
\* document, generic_call fails with a decode error and the caller of
\* generic_call still has s.
C6_StatusPreserved ==
  \A t \in Tasks :
    (DecodeFailed(t) /\ call[t].api = "generic_call") =>
      /\ outcome[t].tag = "raise"
      /\ outcome[t].exc \in ValueErrors
      /\ outcome[t].status = exited[t].rc

\* C6 as amended: generic_call fails with a decode error that carries no exit
\* status, so s does not reach its caller; try_generic_call on the same run
\* returns ({}, 1).
C6_StatusLost ==
  \A t \in Tasks :
    DecodeFailed(t) =>
      /\ call[t].api = "generic_call" =>
           /\ outcome[t].tag = "raise"
           /\ outcome[t].exc \in ValueErrors
           /\ outcome[t].status = -1
           /\ outcome[t].doc = ""
      /\ call[t].api = "try_generic_call" => outcome[t] = ReturnPair("dict()", 1)

C6_Witness ==
  \E t \in Tasks :
    /\ DecodeFailed(t)
    /\ call[t].api = "generic_call"
    /\ exited[t] = [stdout |-> "Permission denied", errok |-> TRUE, rc |-> 2]
    /\ outcome[t].tag = "raise"
    /\ outcome[t].exc = "JSONDecodeError"

\* ------------------------------------------------------------- C7
NamedOps == { "scan", "health", "info", "all", "test_stop", "test_start" }

InterfacePair(c) == IF Truthy(c.interface) THEN << "-d", c.interface >> ELSE <<>>

RowParams(c) ==
  CASE c.api = "scan" -> << "--scan-open" >>
    [] c.api = "health" -> InterfacePair(c) \o << "--health", c.disk >>
    [] c.api = "info" -> InterfacePair(c) \o << "--info", c.disk >>
    [] c.api = "all" -> InterfacePair(c) \o << "--all", c.disk >>
    [] c.api = "test_stop" -> << "-d", c.disk_type, "-X", c.disk >>
    [] c.api = "test_start" -> << "-d", c.disk_type, "-t", c.test_type, c.disk >>

RowResult(c, out) ==
  CASE c.api \in { "scan", "health", "info", "all" } -> ReturnDoc(Document(out))
    [] c.api = "test_stop" -> ReturnStatus(out.rc)
    [] c.api = "test_start" -> ReturnPair(Document(out), out.rc)

\* C7: each named operation does what generic_call does on its table row: it
\* builds the row's params, passes persistent options only for info and all,
\* spawns that command, and on a valid document d with exit status s returns d
\* (scan, health, info, all), s (test_stop) or (d, s) (test_start).
C7_TableRows ==
  \A t \in Tasks :
    (Done(t) /\ call[t].api \in NamedOps) =>
      /\ call[t].params = RowParams(call[t])
      /\ call[t].pass = (call[t].api \in { "info", "all" })
      /\ IF ~Truthy(smartctl_path)
           THEN outcome[t] = Raise("FileNotFoundError")
           ELSE /\ Spawned(t)
                /\ argv[t] = FullCommand(t)
                /\ (Ran(t) /\ ~Undecodable(exited[t])) =>
                     outcome[t] = RowResult(call[t], exited[t])

\* ------------------------------------------------------------- C8
ConfigStep ==
  \/ \E n \in NewOptions : add_options(n)
  \/ \E v \in SudoValues : sudo(v)

\* C8: a step of an invocation leaves the executable path, the persistent
\* option list and the privilege setting as they were, and the caller's params
\* list holds what the caller put in it for as long as the call lasts.
C8_Frame ==
  [][ ~ConfigStep =>
        /\ smartctl_path' = smartctl_path
        /\ heap'[OPTIONS] = heap[OPTIONS]
        /\ _sudo' = _sudo
        /\ \A t \in Tasks : pc'[t] /= "idle" => heap'[params_ref(t)] = call'[t].params
    ]_vars

C8_Witness ==
  \E t \in Tasks :
    /\ Done(t)
    /\ Ran(t)
    /\ call[t].pass
    /\ call[t].params = << "--all", "/dev/sda" >>
    /\ heap[params_ref(t)] = call[t].params
    /\ heap[OPTIONS] = << "-s" >>
    /\ argv[t][Len(argv[t])] = "-j"

\* ------------------------------------------------------------- C9
\* C9: every operation issued with a configured executable path attempts
\* exactly one process spawn, waits once for the process it started, and
\* reports one result or error.
C9_OneSpawnOneWait ==
  \A t \in Tasks :
    (Done(t) /\ Truthy(smartctl_path)) =>
      /\ cnt[t].spawn = 1
      /\ cnt[t].wait = (IF Ran(t) THEN 1 ELSE 0)
      /\ cnt[t].report = 1

\* ------------------------------------------------------------- C10
ExpectedOutcome(c, out) ==
  IF Undecodable(out)
    THEN IF c.api = "try_generic_call" THEN ReturnPair("dict()", 1)
         ELSE Raise(IF out.stdout = BadUtf8 \/ ~out.errok
                      THEN "UnicodeDecodeError" ELSE "JSONDecodeError")
    ELSE IF c.api = "health" THEN ReturnDoc(Document(out))
         ELSE ReturnPair(Document(out), out.rc)

\* C10: under any interleaving of concurrent calls on one wrapper, each call
\* spawns the command it would build alone, waits on a process of its own, and
\* ends with the document and exit status of that process; a call that waits
\* keeps no other call from starting or from completing.
C10_Independent ==
  \A t \in Tasks :
    /\ Spawned(t) => argv[t] = FullCommand(t)
    /\ pc[t] = "communicate" =>
         /\ procs[proc[t]].owner = t
         /\ procs[proc[t]].argv = argv[t]
         /\ \A u \in Tasks \ { t } : proc[u] /= proc[t]
         /\ procs[proc[t]].state = "exited" => ENABLED Communicate(t)
    /\ (Done(t) /\ cnt[t].wait = 1) =>
         /\ Ran(t)
         /\ outcome[t] = ExpectedOutcome(call[t], exited[t])
    /\ pc[t] = "idle" => \A p \in ConcParams : ENABLED generic_call(t, p, TRUE)
    /\ pc[t] = "spawn" => ENABLED Launch(t)

C10_Witness ==
  \E t \in Tasks, u \in Tasks :
    /\ t /= u
    /\ Done(t)
    /\ outcome[t] = ReturnPair("dict(ok=True)", 0)
    /\ pc[u] = "communicate"
    /\ procs[proc[u]].state = "exited"
    /\ procs[proc[u]].out.rc = 2
    /\ argv[t] /= argv[u]

====
